---- MODULE Spec2Model ----
(***************************************************************************)
(* voronoi-rs: weighted Voronoi mosaic of an image (src/src/main.rs).      *)
(*                                                                         *)
(* One run of main(): index the pixels, build the weighted distribution,   *)
(* draw the seed points, blur the image, overwrite every pixel of the      *)
(* blurred buffer with the colour of the best scoring seed, save.          *)
(*                                                                         *)
(* f64 values of score() are modelled as exact extended rationals (finite  *)
(* n/d, +inf, -inf, NaN and the sentinel f64::MAX); weight(), which takes  *)
(* square roots, is computed in fixed point.  u32 values that take part in *)
(* the radius test are sequences of base-256 digits so that 32-bit         *)
(* wrap-around is computed, not assumed away.  The library calls (StdRng,  *)
(* WeightedIndex, fast_blur) are modelled by what they are documented to   *)
(* do: a deterministic generator, cumulative weights with a partition      *)
(* point, a box filter.                                                    *)
(***************************************************************************)
EXTENDS Integers, Sequences, FiniteSets, TLC

VARIABLES
    args,             \* Args: points, seed, weight, blur, point_radius
    overflow_checks,  \* build profile: TRUE = arithmetic overflow panics
    img,              \* decoded input image: width, height, data (row-major)
    pc,               \* position of main()
    err,              \* why the run panicked ("none" while it has not)
    seed,             \* the resolved seed (line 96), None before
    rng,              \* StdRng state
    pixels,           \* Vec<(x, y, [u8; 3])> of line 107
    weights,          \* the WeightedIndex of line 123, None before
    points,           \* Vec<(x, y, [u8; 3])> of line 120
    base,             \* the buffer returned by fast_blur, before the loop
    voronoi,          \* the buffer the render loop overwrites in place
    rendered,         \* cells the render loop has already written
    cur,              \* cell written by the last loop iteration (0: none)
    pixel_in,         \* colour read from that cell before it was written
    scores,           \* the values s of that iteration, in scan order
    min_score,        \* locals of that iteration after the scan (line 154)
    min_color,
    min_pos,
    output,           \* the saved image file, None when nothing is written
    run_no,           \* 1 for the run, 2 when the program is run again
    first             \* outcome of run 1 once the program is run again

vars == <<args, overflow_checks, img, pc, err, seed, rng, pixels, weights,
          points, base, voronoi, rendered, cur, pixel_in, scores, min_score,
          min_color, min_pos, output, run_no, first>>

None == <<>>

Some(v) == <<v>>

\* ------------------------------------------------------------------ bounds

MaxW == 2
MaxH == 2
MaxPoints == 2
MaxSeed == 2

\* ------------------------------------------------------- integer helpers

Abs(n) == IF n < 0 THEN -n ELSE n

Min(a, b) == IF a <= b THEN a ELSE b

AbsDiff(a, b) == IF a >= b THEN a - b ELSE b - a

RECURSIVE Gcd(_, _)
Gcd(a, b) == IF b = 0 THEN a ELSE Gcd(b, a % b)

RECURSIVE SumSeq(_)
SumSeq(s) == IF s = <<>> THEN 0 ELSE Head(s) + SumSeq(Tail(s))

\* floor of the square root, by bisection on [lo, hi]
RECURSIVE SqrtBetween(_, _, _)
SqrtBetween(n, lo, hi) ==
    IF lo >= hi THEN lo
    ELSE LET mid == (lo + hi + 1) \div 2
         IN  IF mid * mid <= n THEN SqrtBetween(n, mid, hi)
                               ELSE SqrtBetween(n, lo, mid - 1)

ISqrt(n) == SqrtBetween(n, 0, Min(n, 46340))

\* ------------------------------------------------------------ u32 digits

Base == 256

U32(n) == <<n % Base, (n \div Base) % Base, (n \div (Base * Base)) % Base,
            (n \div (Base * Base * Base)) % Base>>

Digit(a, i) == IF i \in DOMAIN a THEN a[i] ELSE 0

ColSum(a, b, k) == SumSeq([i \in 1..k |-> Digit(a, i) * Digit(b, k + 1 - i)])

RECURSIVE MulDigits(_, _, _, _, _)
MulDigits(a, b, k, n, carry) ==
    IF k > n THEN <<>>
    ELSE LET t == ColSum(a, b, k) + carry
         IN  <<t % Base>> \o MulDigits(a, b, k + 1, n, t \div Base)

\* the exact product of two digit sequences (Len(a) + Len(b) digits)
FullMul(a, b) == MulDigits(a, b, 1, Len(a) + Len(b), 0)

RECURSIVE AddDigits(_, _, _, _, _)
AddDigits(a, b, k, n, carry) ==
    IF k > n THEN <<>>
    ELSE LET t == Digit(a, k) + Digit(b, k) + carry
         IN  <<t % Base>> \o AddDigits(a, b, k + 1, n, t \div Base)

\* the exact sum of two digit sequences (one digit longer than the longer)
FullAdd(a, b) ==
    AddDigits(a, b, 1, (IF Len(a) >= Len(b) THEN Len(a) ELSE Len(b)) + 1, 0)

RECURSIVE LeFrom(_, _, _)
LeFrom(a, b, k) ==
    IF k = 0 THEN TRUE
    ELSE IF Digit(a, k) # Digit(b, k) THEN Digit(a, k) < Digit(b, k)
    ELSE LeFrom(a, b, k - 1)

DigitsLe(a, b) == LeFrom(a, b, IF Len(a) >= Len(b) THEN Len(a) ELSE Len(b))

\* TRUE when the exact value does not fit in 32 bits
Overflows(d) == \E i \in DOMAIN d : i > 4 /\ d[i] # 0

Low32(d) == [i \in 1..4 |-> Digit(d, i)]

\* ------------------------------------------------------------------- f64
\* An f64 is [k, n, d]: k = "fin" is the rational n/d (d > 0, lowest terms),
\* "inf", "ninf", "nan" are the IEEE specials and "max" is f64::MAX.

Fin(n, d) ==
    LET g == Gcd(Abs(n), d)
    IN  [k |-> "fin", n |-> n \div g, d |-> d \div g]

FromInt(n) == [k |-> "fin", n |-> n, d |-> 1]

Inf == [k |-> "inf", n |-> 0, d |-> 1]

NegInf == [k |-> "ninf", n |-> 0, d |-> 1]

NaN == [k |-> "nan", n |-> 0, d |-> 1]

F64Max == [k |-> "max", n |-> 0, d |-> 1]

IsZero(a) == a.k = "fin" /\ a.n = 0

\* -1, 0 or 1
Sign(a) ==
    CASE a.k = "inf" -> 1
      [] a.k = "max" -> 1
      [] a.k = "ninf" -> -1
      [] a.k = "nan" -> 0
      [] OTHER -> IF a.n > 0 THEN 1 ELSE IF a.n < 0 THEN -1 ELSE 0

Signed(s) == IF s < 0 THEN NegInf ELSE Inf

Lcm(a, b) == (a \div Gcd(a, b)) * b

FMul(a, b) ==
    IF a.k = "nan" \/ b.k = "nan" THEN NaN
    ELSE IF a.k = "fin" /\ b.k = "fin" THEN Fin(a.n * b.n, a.d * b.d)
    ELSE IF Sign(a) * Sign(b) = 0 THEN NaN
    ELSE Signed(Sign(a) * Sign(b))

FDiv(a, b) ==
    IF a.k = "nan" \/ b.k = "nan" THEN NaN
    ELSE IF a.k # "fin" /\ b.k # "fin" THEN NaN
    ELSE IF a.k # "fin" THEN Signed(Sign(a) * (IF Sign(b) < 0 THEN -1 ELSE 1))
    ELSE IF b.k # "fin" THEN FromInt(0)
    ELSE IF b.n = 0 THEN (IF a.n = 0 THEN NaN ELSE Signed(Sign(a)))
    ELSE Fin(a.n * b.d * Sign(b), a.d * Abs(b.n))

FAdd(a, b) ==
    IF a.k = "nan" \/ b.k = "nan" THEN NaN
    ELSE IF a.k = "fin" /\ b.k = "fin"
         THEN LET l == Lcm(a.d, b.d)
              IN  Fin(a.n * (l \div a.d) + b.n * (l \div b.d), l)
    ELSE IF a.k # "fin" /\ b.k # "fin" /\ a.k # b.k THEN NaN
    ELSE IF a.k # "fin" THEN a
    ELSE b

Rank(a) ==
    CASE a.k = "ninf" -> 0
      [] a.k = "fin" -> 1
      [] a.k = "max" -> 2
      [] OTHER -> 3

\* the f64 comparison a < b (false as soon as one side is NaN)
FLt(a, b) ==
    IF a.k = "nan" \/ b.k = "nan" THEN FALSE
    ELSE IF a.k = "fin" /\ b.k = "fin"
         THEN LET l == Lcm(a.d, b.d)
              IN  a.n * (l \div a.d) < b.n * (l \div b.d)
    ELSE Rank(a) < Rank(b)

FEq(a, b) ==
    /\ a.k # "nan"
    /\ b.k # "nan"
    /\ a = b

\* ---------------------------------------------------------------- colours

CHANNEL_COUNT == 3

U8_MAX == 255

Black == <<0, 0, 0>>

Grey == <<100, 100, 100>>

Amber == <<250, 200, 50>>

Palette == <<Black, Grey, Amber>>

\* ------------------------------------------------------------------ weight
\* weight() in fixed point: the integer v stands for v / FixedScale.

FixedScale == 1000

\* division truncating toward zero
QDiv(a, b) == IF a >= 0 THEN a \div b ELSE -((-a) \div b)

Powi2(v) == (v * v) \div FixedScale

FSqrt(v) == ISqrt(v * FixedScale)

WeightOffsetWrong == (8 * FixedScale) \div 10

WeightOffset == (3 * FixedScale) \div 10

weight(pixel, width, height) ==
    LET center_x == (width * FixedScale) \div 2
        center_y == (height * FixedScale) \div 2
        x_dist == QDiv(pixel[1] * FixedScale - center_x, width)
        y_dist == QDiv(pixel[2] * FixedScale - center_y, height)
        dist == FSqrt(FSqrt(Powi2(x_dist) + Powi2(y_dist)))
        dist_weight == (FixedScale * FixedScale) \div (dist + FixedScale)
    IN  dist_weight - WeightOffset

\* ------------------------------------------------------------------- score

COLOR_WEIGHT_MULT == 10000

color_dist_signed(color, pcolor) ==
    SumSeq([c \in 1..CHANNEL_COUNT |-> color[c] - pcolor[c]])

color_dist(color, pcolor) ==
    SumSeq([c \in 1..CHANNEL_COUNT |-> AbsDiff(color[c], pcolor[c])])

pos_dist(pixel, point) ==
    AbsDiff(pixel[1], point[1]) * AbsDiff(pixel[1], point[1])
    + AbsDiff(pixel[2], point[2]) * AbsDiff(pixel[2], point[2])

scoreNoZeroBranch(pixel, point, color_weight, max_color_dist, max_pos_dist) ==
    FAdd(FDiv(FromInt(pos_dist(pixel, point)), max_pos_dist),
         FDiv(FMul(FDiv(FromInt(color_dist(pixel[3], point[3])),
                        max_color_dist),
                   color_weight),
              FromInt(COLOR_WEIGHT_MULT)))

scoreZeroAddsColor(pixel, point, color_weight, max_color_dist, max_pos_dist) ==
    IF IsZero(color_weight)
    THEN FromInt(pos_dist(pixel, point) + color_dist(pixel[3], point[3]))
    ELSE scoreNoZeroBranch(pixel, point, color_weight, max_color_dist,
                           max_pos_dist)

score(pixel, point, color_weight, max_color_dist, max_pos_dist) ==
    IF IsZero(color_weight)
    THEN FromInt(pos_dist(pixel, point))
    ELSE FAdd(FDiv(FromInt(pos_dist(pixel, point)), max_pos_dist),
              FDiv(FMul(FDiv(FromInt(color_dist(pixel[3], point[3])),
                             max_color_dist),
                        color_weight),
                   FromInt(COLOR_WEIGHT_MULT)))

max_pos_dist == FromInt(img.width * img.width + img.height * img.height)

max_color_dist == FromInt(U8_MAX * CHANNEL_COUNT)

\* ------------------------------------------------------------------ images

Cells == 1..(img.width * img.height)

XOf(p) == (p - 1) % img.width

YOf(p) == (p - 1) \div img.width

\* the test image: black at (0,0), grey at (1,0), amber everywhere else
RampColor(x, y) == Palette[Min(x + 2 * y, 2) + 1]

Image(w, h) ==
    [width |-> w, height |-> h,
     data |-> [p \in 1..(w * h) |-> RampColor((p - 1) % w, (p - 1) \div w)]]

Images == {Image(w, h) : w \in 0..MaxW, h \in 0..MaxH}

\* ------------------------------------------------------------- fast_blur
\* image::imageops::fast_blur, as one horizontal and one vertical pass of a
\* 3-wide box filter with the edge values repeated; sigma 0 copies the image.

Clamp(v, lo, hi) == IF v < lo THEN lo ELSE IF v > hi THEN hi ELSE v

At(data, w, h, x, y) == data[Clamp(y, 0, h - 1) * w + Clamp(x, 0, w - 1) + 1]

Mean3(a, b, c) == [ch \in 1..CHANNEL_COUNT |-> (a[ch] + b[ch] + c[ch]) \div 3]

BoxH(data, w, h) ==
    [p \in 1..(w * h) |->
        LET x == (p - 1) % w
            y == (p - 1) \div w
        IN  Mean3(At(data, w, h, x - 1, y), At(data, w, h, x, y),
                  At(data, w, h, x + 1, y))]

BoxV(data, w, h) ==
    [p \in 1..(w * h) |->
        LET x == (p - 1) % w
            y == (p - 1) \div w
        IN  Mean3(At(data, w, h, x, y - 1), At(data, w, h, x, y),
                  At(data, w, h, x, y + 1))]

fast_blur(image, sigma) ==
    IF sigma = 0 THEN image.data
    ELSE BoxV(BoxH(image.data, image.width, image.height),
              image.width, image.height)

\* ---------------------------------------------------------- StdRng, sampling
\* StdRng as a full-period linear congruential generator on RngMod states.

RngMod == 8

seed_from_u64(s) == s % RngMod

RngNext(state) == (5 * state + 1) % RngMod

ResolveSeedIgnoringArg(arg, entropy) == entropy

\* lines 96-99: the supplied seed, or one drawn from the process entropy
ResolveSeed(arg, entropy) == IF arg = None THEN entropy ELSE arg[1]

RECURSIVE Prefix(_, _)
Prefix(ws, n) == IF n = 0 THEN 0 ELSE Prefix(ws, n - 1) + ws[n]

NoIndex == [ok |-> FALSE, error |-> "none", cumulative_weights |-> <<>>,
            total_weight |-> 0]

IndexError(e) == [NoIndex EXCEPT !.error = e]

\* WeightedIndex::new: cumulative weights of all but the last entry
WeightedIndexNew(ws) ==
    IF Len(ws) = 0 THEN IndexError("InvalidInput")
    ELSE IF \E i \in DOMAIN ws : ws[i] < 0 THEN IndexError("InvalidWeight")
    ELSE IF Prefix(ws, Len(ws)) = 0 THEN IndexError("InsufficientNonZero")
    ELSE [ok |-> TRUE, error |-> "none",
          cumulative_weights |-> [i \in 1..(Len(ws) - 1) |-> Prefix(ws, i)],
          total_weight |-> Prefix(ws, Len(ws))]

\* WeightedIndex::sample: a uniform value below total_weight, then the
\* partition point of the cumulative weights (0-based index)
Sample(wi, r) ==
    LET chosen == (r * wi.total_weight) \div RngMod
    IN  Cardinality({i \in DOMAIN wi.cumulative_weights :
                        wi.cumulative_weights[i] <= chosen})

SampleLoopContinuesInclusive == Len(points) <= args.points

\* line 125: for _ in 0..args.points
SampleLoopContinues == Len(points) < args.points

\* ------------------------------------------------------------ render loop

PixelAtLeft(buf, p) == buf[IF p > 1 THEN p - 1 ELSE p]

\* line 142: pixel.0, the cell the iterator hands out, as it is now
PixelAt(buf, p) == buf[p]

NoSeed == [min_score |-> F64Max, min_color |-> <<0, 0, 0>>, min_pos |-> <<0, 0>>]

\* lines 140-154: keep the first seed whose score is below every earlier one
RECURSIVE Scan(_, _, _, _)
Scan(ss, pts, i, acc) ==
    IF i > Len(pts) THEN acc
    ELSE Scan(ss, pts, i + 1,
              IF FLt(ss[i], acc.min_score)
              THEN [min_score |-> ss[i], min_color |-> pts[i][3],
                    min_pos |-> <<pts[i][1], pts[i][2]>>]
              ELSE acc)

Invert(color) == [c \in 1..CHANNEL_COUNT |-> U8_MAX - color[c]]

\* the exact values of dx * dx, dy * dy, their sum and radius * radius
DxDx(x, pos) == FullMul(U32(AbsDiff(x, pos[1])), U32(AbsDiff(x, pos[1])))

DyDy(y, pos) == FullMul(U32(AbsDiff(y, pos[2])), U32(AbsDiff(y, pos[2])))

RadiusSq(radius) == FullMul(U32(radius), U32(radius))

\* line 159 in a build without overflow checks: every operation wraps
InRadiusWrapping(x, y, pos, radius) ==
    DigitsLe(Low32(FullAdd(Low32(DxDx(x, pos)), Low32(DyDy(y, pos)))),
             Low32(RadiusSq(radius)))

\* line 159 in a build with overflow checks: one of the operations panics
RadiusTestOverflows(x, y, pos, radius) ==
    \/ Overflows(DxDx(x, pos))
    \/ Overflows(DyDy(y, pos))
    \/ Overflows(FullAdd(Low32(DxDx(x, pos)), Low32(DyDy(y, pos))))
    \/ Overflows(RadiusSq(radius))

\* lines 140-148: the scores of the seeds against cell (x, y) of colour pixel
Scores(x, y, pixel) ==
    [i \in 1..Len(points) |->
        score(<<x, y, pixel>>, points[i], args.weight, max_color_dist,
              max_pos_dist)]

\* lines 137-164 for cell p
RenderCell(p) ==
    \E ss \in {Scores(XOf(p), YOf(p), PixelAt(voronoi, p))} :
    \E acc \in {Scan(ss, points, 1, NoSeed)} :
        LET x == XOf(p)
            y == YOf(p)
            panics == /\ args.point_radius # None
                      /\ overflow_checks
                      /\ RadiusTestOverflows(x, y, acc.min_pos,
                                             args.point_radius[1])
            inside == /\ args.point_radius # None
                      /\ InRadiusWrapping(x, y, acc.min_pos,
                                          args.point_radius[1])
        IN  /\ cur' = p
            /\ pixel_in' = PixelAt(voronoi, p)
            /\ scores' = ss
            /\ min_score' = acc.min_score
            /\ min_color' = acc.min_color
            /\ min_pos' = acc.min_pos
            /\ IF panics
               THEN /\ pc' = "panicked"
                    /\ err' = "overflow"
                    /\ UNCHANGED <<voronoi, rendered>>
               ELSE /\ voronoi' = [voronoi EXCEPT
                                      ![p] = IF inside THEN Invert(acc.min_color)
                                                       ELSE acc.min_color]
                    /\ rendered' = rendered \cup {p}
                    /\ UNCHANGED <<pc, err>>
            /\ UNCHANGED <<args, overflow_checks, img, seed, rng, pixels,
                           weights, points, base, output, run_no, first>>

\* ------------------------------------------------------------------ inputs

WeightValues == {FromInt(0), Fin(7, 2), Fin(-7, 2), Inf}

BlurValues == {0, 1}

RadiusValues == {None, Some(0), Some(1), Some(65536)}

SeedValues == {None} \cup {Some(s) : s \in 0..MaxSeed}

ArgsSet ==
    [points : 0..MaxPoints, seed : SeedValues, weight : WeightValues,
     blur : BlurValues, point_radius : RadiusValues]

NoRun == [valid |-> FALSE, pc |-> "start", err |-> "none", points |-> <<>>,
          written |-> FALSE, data |-> <<>>]

NoOutput == [written |-> FALSE, data |-> <<>>]

\* the state of main() once the arguments are parsed and the image is open
Fresh ==
    /\ pc = "start"
    /\ err = "none"
    /\ seed = None
    /\ rng = 0
    /\ pixels = <<>>
    /\ weights = NoIndex
    /\ points = <<>>
    /\ base = <<>>
    /\ voronoi = <<>>
    /\ rendered = {}
    /\ cur = 0
    /\ pixel_in = <<0, 0, 0>>
    /\ scores = <<>>
    /\ min_score = F64Max
    /\ min_color = <<0, 0, 0>>
    /\ min_pos = <<0, 0>>
    /\ output = NoOutput

Init ==
    /\ args \in ArgsSet
    /\ overflow_checks \in BOOLEAN
    /\ img \in Images
    /\ run_no = 1
    /\ first = NoRun
    /\ Fresh

\* ----------------------------------------------------------------- actions

\* lines 95-102
SeedRng ==
    /\ pc = "start"
    /\ \E entropy \in 0..MaxSeed :
          /\ seed' = Some(ResolveSeed(args.seed, entropy))
          /\ rng' = seed_from_u64(seed'[1])
    /\ pc' = "index"
    /\ UNCHANGED <<args, overflow_checks, img, err, pixels, weights, points,
                   base, voronoi, rendered, cur, pixel_in, scores, min_score,
                   min_color, min_pos, output, run_no, first>>

\* lines 107-118
IndexPixels ==
    /\ pc = "index"
    /\ pixels' = [p \in Cells |-> <<XOf(p), YOf(p), img.data[p]>>]
    /\ pc' = "weights"
    /\ UNCHANGED <<args, overflow_checks, img, err, seed, rng, weights, points,
                   base, voronoi, rendered, cur, pixel_in, scores, min_score,
                   min_color, min_pos, output, run_no, first>>

BuildWeightsIgnoringError ==
    /\ pc = "weights"
    /\ weights' = WeightedIndexNew([i \in DOMAIN pixels |->
                                      weight(pixels[i], img.width, img.height)])
    /\ pc' = "sample"
    /\ UNCHANGED <<args, overflow_checks, img, err, seed, rng, pixels, points,
                   base, voronoi, rendered, cur, pixel_in, scores, min_score,
                   min_color, min_pos, output, run_no, first>>

\* lines 123-124: WeightedIndex::new(...).unwrap()
BuildWeights ==
    /\ pc = "weights"
    /\ LET wi == WeightedIndexNew([i \in DOMAIN pixels |->
                                      weight(pixels[i], img.width, img.height)])
       IN  /\ weights' = wi
           /\ pc' = IF wi.ok THEN "sample" ELSE "panicked"
           /\ err' = wi.error
    /\ UNCHANGED <<args, overflow_checks, img, seed, rng, pixels, points, base,
                   voronoi, rendered, cur, pixel_in, scores, min_score,
                   min_color, min_pos, output, run_no, first>>

\* lines 125-128
SamplePoint ==
    /\ pc = "sample"
    /\ SampleLoopContinues
    /\ rng' = RngNext(rng)
    /\ points' = Append(points, pixels[Sample(weights, rng') + 1])
    /\ UNCHANGED <<args, overflow_checks, img, pc, err, seed, pixels, weights,
                   base, voronoi, rendered, cur, pixel_in, scores, min_score,
                   min_color, min_pos, output, run_no, first>>

\* line 135
Blur ==
    /\ pc = "sample"
    /\ ~SampleLoopContinues
    /\ base' = fast_blur(img, args.blur)
    /\ voronoi' = base'
    /\ pc' = "render"
    /\ UNCHANGED <<args, overflow_checks, img, err, seed, rng, pixels, weights,
                   points, rendered, cur, pixel_in, scores, min_score,
                   min_color, min_pos, output, run_no, first>>

\* lines 136-169, one iteration: enumerate_pixels_mut is row-major
RenderPixel ==
    /\ pc = "render"
    /\ rendered # Cells
    /\ RenderCell(CHOOSE p \in Cells \ rendered :
                     \A q \in Cells \ rendered : p <= q)

\* lines 174 and 179
Save ==
    /\ pc = "render"
    /\ rendered = Cells
    /\ output' = [written |-> TRUE, data |-> voronoi]
    /\ pc' = "done"
    /\ UNCHANGED <<args, overflow_checks, img, err, seed, rng, pixels, weights,
                   points, base, voronoi, rendered, cur, pixel_in, scores,
                   min_score, min_color, min_pos, run_no, first>>

\* lines 174-178: the encoder or the file system refuses
SaveFails ==
    /\ pc = "render"
    /\ rendered = Cells
    /\ pc' = "exit"
    /\ err' = "save"
    /\ UNCHANGED <<args, overflow_checks, img, seed, rng, pixels, weights,
                   points, base, voronoi, rendered, cur, pixel_in, scores,
                   min_score, min_color, min_pos, output, run_no, first>>

Next ==
    \/ SeedRng
    \/ IndexPixels
    \/ BuildWeights
    \/ SamplePoint
    \/ Blur
    \/ RenderPixel
    \/ Save
    \/ SaveFails

Spec == Init /\ [][Next]_vars

\* --------------------------------------------------- running the program again

Finished == pc \in {"done", "exit", "panicked"}

Outcome == [valid |-> TRUE, pc |-> pc, err |-> err, points |-> points,
            written |-> output.written, data |-> output.data]

\* the process ends and main() starts again with arguments a
Restart(a) ==
    /\ run_no = 1
    /\ Finished
    /\ first' = Outcome
    /\ run_no' = 2
    /\ args' = a
    /\ pc' = "start"
    /\ err' = "none"
    /\ seed' = None
    /\ rng' = 0
    /\ pixels' = <<>>
    /\ weights' = NoIndex
    /\ points' = <<>>
    /\ base' = <<>>
    /\ voronoi' = <<>>
    /\ rendered' = {}
    /\ cur' = 0
    /\ pixel_in' = <<0, 0, 0>>
    /\ scores' = <<>>
    /\ min_score' = F64Max
    /\ min_color' = <<0, 0, 0>>
    /\ min_pos' = <<0, 0>>
    /\ output' = NoOutput
    /\ UNCHANGED <<overflow_checks, img>>

\* the same command line once more
Rerun == Restart(args)

\* the same command line with the reported seed and another blur amount
RerunOtherBlur ==
    \E b \in BlurValues \ {args.blur} :
        Restart([args EXCEPT !.seed = seed, !.blur = b])

\* the same command line with the reported seed, for a renderer that visits
\* the cells in an order of its own
RerunAnyOrder == Restart([args EXCEPT !.seed = seed])

\* lines 136-169, one iteration of a loop that may take any cell next
RenderAnyCell ==
    /\ pc = "render"
    /\ run_no = 2
    /\ \E p \in Cells \ rendered : RenderCell(p)

InitRerun ==
    /\ Init
    /\ args.point_radius \in {None, Some(65536)}
    /\ args.weight \in {FromInt(0), Fin(7, 2)}

SpecRerun == InitRerun /\ [][Next \/ Rerun]_vars

InitBlur ==
    /\ Init
    /\ ~overflow_checks
    /\ args.point_radius \in {None, Some(1)}

SpecBlur == InitBlur /\ [][Next \/ RerunOtherBlur]_vars

InitOrder ==
    /\ Init
    /\ ~overflow_checks
    /\ args.seed # None
    /\ args.points = MaxPoints
    /\ args.blur = 1
    /\ args.point_radius = Some(1)
    /\ args.weight = Fin(7, 2)

SpecOrder == InitOrder /\ [][Next \/ RerunAnyOrder \/ RenderAnyCell]_vars

\* ------------------------------------------------------------------ claims

\* the iteration for cell cur has run its scan over a non-empty seed sequence
Scanned == cur # 0 /\ points # <<>>

CurPixel == <<XOf(cur), YOf(cur), pixel_in>>

\* the earliest seed no other seed scores below
MinScoreSeed ==
    CHOOSE i \in DOMAIN scores :
        /\ \A j \in DOMAIN scores : ~FLt(scores[j], scores[i])
        /\ \A j \in 1..(i - 1) : \E k \in DOMAIN scores : FLt(scores[k], scores[j])

\* the earliest seed no other seed is nearer than, by position alone
NearestSeed ==
    CHOOSE i \in DOMAIN points :
        /\ \A j \in DOMAIN points :
              pos_dist(CurPixel, points[j]) >= pos_dist(CurPixel, points[i])
        /\ \A j \in 1..(i - 1) :
              pos_dist(CurPixel, points[j]) > pos_dist(CurPixel, points[i])

\* C1: after the scan of any cell over a non-empty seed sequence, the base
\* colour (min_color, before the highlight) is the colour of the seed with
\* the minimum score, the earliest such seed on an exact tie.
C1_BaseColourIsMinScoreSeed ==
    Scanned => min_color = points[MinScoreSeed][3]

FGeZero(a) == a.k # "nan" /\ ~FLt(a, FromInt(0))

Coincides(i) ==
    /\ points[i][1] = XOf(cur)
    /\ points[i][2] = YOf(cur)
    /\ points[i][3] = pixel_in

ScoresAreDistances ==
    \A i \in DOMAIN points :
        /\ FGeZero(scores[i])
        /\ Coincides(i) => FEq(scores[i], FromInt(0))

\* C8 as stated: for every colour weight the command line accepts, every
\* score is >= 0, and it is 0 when seed and cell agree in position and colour.
C8_ScoreNonNegativeAnyWeight ==
    Scanned => ScoresAreDistances

\* C8 amended: the same for every finite colour weight >= 0.
C8_ScoreNonNegative ==
    (Scanned /\ args.weight.k = "fin" /\ args.weight.n >= 0) => ScoresAreDistances

\* C8 witness: a positive colour weight, one seed that coincides with the
\* cell (score 0) and one that does not (score above 0).
C8_Witness ==
    /\ Scanned
    /\ args.weight.k = "fin"
    /\ args.weight.n > 0
    /\ \E i \in DOMAIN points : Coincides(i) /\ FEq(scores[i], FromInt(0))
    /\ \E i \in DOMAIN points : FLt(FromInt(0), scores[i])

\* the squared distance of cell (x, y) to pos is at most radius squared, in
\* exact arithmetic
InRadiusExact(x, y, pos, radius) ==
    DigitsLe(FullAdd(DxDx(x, pos), DyDy(y, pos)), RadiusSq(radius))

\* C5: with a point radius set, the iteration for a cell writes the inverse
\* of the winning seed's colour exactly when the squared distance of the cell
\* to the winning seed is at most the radius squared (as numbers, not as
\* 32-bit values), and the winning seed's colour otherwise, for every radius.
C5_HighlightMatchesExactTest ==
    (Scanned /\ args.point_radius # None) =>
        /\ cur \in rendered
        /\ voronoi[cur] =
              IF InRadiusExact(XOf(cur), YOf(cur), min_pos, args.point_radius[1])
              THEN Invert(min_color)
              ELSE min_color

SamplingOver ==
    \/ pc \in {"render", "done", "exit"}
    \/ pc = "panicked" /\ err = "overflow"

\* C2: once the sampling step is over there are exactly args.points seeds
\* and each of them is an entry (x, y, colour) of the pixel index.
C2_SeedsDrawnFromPixelIndex ==
    SamplingOver =>
        /\ Len(points) = args.points
        /\ \A i \in DOMAIN points : \E j \in DOMAIN pixels : points[i] = pixels[j]

\* C2 witness: sampling is over with two different seeds drawn.
C2_Witness ==
    /\ SamplingOver
    /\ args.points >= 2
    /\ Len(points) = args.points
    /\ points[1] # points[2]

EmptyImage == img.width = 0 \/ img.height = 0

\* C7: for an image of zero width or height the run never draws a seed,
\* renders or writes anything, and the step that builds the weighted
\* distribution ends it with a panic.
C7_EmptyImageIsFatal ==
    EmptyImage =>
        /\ points = <<>>
        /\ rendered = {}
        /\ ~output.written
        /\ pc \in {"start", "index", "weights", "panicked"}
        /\ pc = "panicked" => err = "InvalidInput"

\* C7 witness: an empty image, seeds asked for, and the run has panicked.
C7_Witness ==
    /\ EmptyImage
    /\ args.points >= 1
    /\ pc = "panicked"
    /\ err = "InvalidInput"

\* C9: for a non-empty image every sampling weight is >= 0 and the
\* constructor of the weighted distribution accepts the weight vector.
C9_WeightsNonNegative ==
    (~EmptyImage /\ pc \notin {"start", "index", "weights"}) =>
        /\ \A i \in DOMAIN pixels : weight(pixels[i], img.width, img.height) >= 0
        /\ weights.ok
        /\ err \notin {"InvalidInput", "InvalidWeight", "InsufficientNonZero"}

\* C9 witness: the distribution was built over an image of several pixels,
\* corner pixel included.
C9_Witness ==
    /\ pc = "sample"
    /\ weights.ok
    /\ Len(pixels) = MaxW * MaxH
    /\ weight(pixels[1], img.width, img.height) > 0

BothSaved == run_no = 2 /\ pc = "done" /\ first.pc = "done"

\* C3: when the same command line with a supplied seed is run again, the
\* second run draws the seeds of the first, panics exactly where the first
\* panicked, and an image it saves is the image the first run saved.
C3_SameSeedSameOutput ==
    (run_no = 2 /\ args.seed # None) =>
        /\ Len(points) <= Len(first.points)
        /\ \A i \in DOMAIN points : points[i] = first.points[i]
        /\ SamplingOver => points = first.points
        /\ pc = "panicked" => (first.pc = "panicked" /\ err = first.err)
        /\ (Finished /\ first.pc = "panicked") => pc = "panicked"
        /\ BothSaved => output.data = first.data

\* C3 witness: a second run with a supplied seed has saved an image of
\* several pixels rendered from two different seeds.
C3_Witness ==
    /\ BothSaved
    /\ args.seed # None
    /\ Len(points) = 2
    /\ points[1] # points[2]
    /\ Len(output.data) > 1
    /\ output.data = first.data

\* C6 as stated: the same image, seeds, colour weight and point radius with
\* another blur amount give the same output image.
C6_BlurNeverAffectsOutput ==
    BothSaved => output.data = first.data

\* C6 amended: with a colour weight of exactly zero, the same image, seeds
\* and point radius with another blur amount give the same output image.
C6_BlurIrrelevantAtZeroWeight ==
    (BothSaved /\ IsZero(args.weight)) => output.data = first.data

\* C6 witness: a zero colour weight, a second run whose blurred base differs
\* from the source image, two seeds of different colours, same output.
C6_Witness ==
    /\ BothSaved
    /\ IsZero(args.weight)
    /\ args.blur # 0
    /\ base # img.data
    /\ Len(points) = 2
    /\ points[1][3] # points[2][3]
    /\ output.data = first.data

\* C10: every iteration reads the colour its cell had before the loop
\* started, and a renderer that takes the cells in any order saves the image
\* the row-major loop saves.
C10_CellsAreIndependent ==
    /\ cur # 0 => pixel_in = base[cur]
    /\ BothSaved => output.data = first.data

\* C10 witness: the second run has written every cell but the first one,
\* with a non-zero colour weight, a blurred base and two different seeds.
C10_Witness ==
    /\ run_no = 2
    /\ pc = "render"
    /\ first.pc = "done"
    /\ Cardinality(Cells) >= 3
    /\ rendered = Cells \ {1}
    /\ ~IsZero(args.weight)
    /\ base # img.data
    /\ Len(points) = 2
    /\ points[1][3] # points[2][3]

====
